---- MODULE Spec2Model ----
(***************************************************************************)
(* BookCenter: the search-and-ranking engine (src/utils/advancedSearch.ts) *)
(* and the two-tier retrieval built on it (DatabaseManager.searchBooks in  *)
(* src/utils/database.ts, searchBooks in src/hooks/useBookStore.ts).       *)
(*                                                                         *)
(* A JavaScript string is a sequence of UTF-16 code units.  A code unit is *)
(* written as a one-character string for ASCII ("b", "B", "!", " ") and as *)
(* "U09AC" for the Bangla code point U+09AC.  A JavaScript number is an    *)
(* exact rational <<n, d>> in lowest terms (d > 0).                        *)
(***************************************************************************)
EXTENDS Integers, Sequences, FiniteSets, TLC

\* ------------------------------------------------------------------------
\* Evaluation order.  JavaScript evaluates an argument or a const once,
\* before it is used; Let binds a value the same way.
\* ------------------------------------------------------------------------

Let(v, F(_)) == CHOOSE r \in {F(x) : x \in {v}} : TRUE

Let2(v, w, F(_, _)) == CHOOSE r \in {F(x, y) : x \in {v}, y \in {w}} : TRUE

Let3(u, v, w, F(_, _, _)) ==
    CHOOSE r \in {F(x, y, z) : x \in {u}, y \in {v}, z \in {w}} : TRUE

\* a function on 1..n as a tuple whose elements are computed once
List(f) == SubSeq(f, 1, Len(f))

\* ------------------------------------------------------------------------
\* Characters
\* ------------------------------------------------------------------------

UpperCase == <<"A","B","C","D","E","F","G","H","I","J","K","L","M",
               "N","O","P","Q","R","S","T","U","V","W","X","Y","Z">>

LowerCase == <<"a","b","c","d","e","f","g","h","i","j","k","l","m",
               "n","o","p","q","r","s","t","u","v","w","x","y","z">>

Digit == <<"0","1","2","3","4","5","6","7","8","9">>

\* String.prototype.toLowerCase, one code unit (Bangla has no case).
toLowerCase1(c) ==
    Let(c, LAMBDA ch :
        IF \E i \in 1..26 : UpperCase[i] = ch
        THEN LowerCase[CHOOSE i \in 1..26 : UpperCase[i] = ch]
        ELSE ch)

toLowerCase(str) ==
    Let(str, LAMBDA s : List([i \in 1..Len(s) |-> toLowerCase1(s[i])]))

\* The Bangla code points of general category Lo (letters) that the
\* transliteration dictionary uses; the vowel signs and the virama
\* (U+09BE, U+0982, U+09C7, U+09CD, U+09BF, U+09C0, U+09C2, U+09CB) are
\* marks (Mc/Mn), which \p{L} does not match.
BanglaLetter == {"U09AC","U0987","U09B2","U0996","U0995","U09AA","U09B0",
                 "U09B6","U09A8","U0989","U09AF","U09B8","U09A4","U0997",
                 "U09B9","U099C","U099E","U09A3","U09AD"}

\* the Hangul letters of the inputs: two conjoining jamo and their syllable
HangulLetter == {"U1100", "U1161", "UAC00"}

\* \p{L} or \p{N}
IsLetterOrNumber(c) ==
    Let(c, LAMBDA ch :
        \/ \E i \in 1..26 : LowerCase[i] = ch \/ UpperCase[i] = ch
        \/ \E i \in 1..10 : Digit[i] = ch
        \/ ch \in BanglaLetter
        \/ ch \in HangulLetter)

\* \s
IsSpace(c) == c \in {" ", "TAB"}

\* ------------------------------------------------------------------------
\* Numbers
\* ------------------------------------------------------------------------

RECURSIVE GCD(_, _)
GCD(a, b) == Let2(a, b, LAMBDA x, y : IF y = 0 THEN x ELSE GCD(y, x % y))

Abs(n) == Let(n, LAMBDA x : IF x < 0 THEN -x ELSE x)

Rat(n, d) ==
    Let2(n, d, LAMBDA x, y :
        IF x = 0 THEN <<0, 1>>
        ELSE Let(GCD(Abs(x), y), LAMBDA g : <<x \div g, y \div g>>))

RAdd(x, y) == Let2(x, y, LAMBDA a, b : Rat(a[1] * b[2] + b[1] * a[2], a[2] * b[2]))
RMul(x, y) == Let2(x, y, LAMBDA a, b : Rat(a[1] * b[1], a[2] * b[2]))
RLeq(x, y) == Let2(x, y, LAMBDA a, b : a[1] * b[2] <= b[1] * a[2])
RLt(x, y)  == Let2(x, y, LAMBDA a, b : a[1] * b[2] < b[1] * a[2])
RMin(x, y) == Let2(x, y, LAMBDA a, b : IF RLeq(a, b) THEN a ELSE b)
RMax(x, y) == Let2(x, y, LAMBDA a, b : IF RLeq(a, b) THEN b ELSE a)

Min2(a, b) == Let2(a, b, LAMBDA x, y : IF x <= y THEN x ELSE y)

\* ------------------------------------------------------------------------
\* String helpers (String.prototype.includes / split / trim / replace)
\* ------------------------------------------------------------------------

\* sub occurs in str at the 1-based position at (str and sub are values)
OccursAt(str, sub, at) ==
    /\ at + Len(sub) - 1 <= Len(str)
    /\ \A k \in 1..Len(sub) : str[at + k - 1] = sub[k]

\* str.includes(sub)
includes(str, sub) ==
    Let2(str, sub, LAMBDA s, t : \E at \in 1..(Len(s) + 1) : OccursAt(s, t, at))

RECURSIVE CollapseSpaces(_)
\* .replace(/\s+/g, ' ')
CollapseSpaces(str) ==
    Let(str, LAMBDA s :
        IF s = <<>> THEN <<>>
        ELSE IF IsSpace(s[1])
             THEN IF Len(s) > 1 /\ IsSpace(s[2])
                  THEN CollapseSpaces(Tail(s))
                  ELSE <<" ">> \o CollapseSpaces(Tail(s))
             ELSE <<s[1]>> \o CollapseSpaces(Tail(s)))

\* .trim() of a string whose whitespace runs are already single spaces
trim(str) ==
    Let(str, LAMBDA s :
        Let(IF s # <<>> /\ IsSpace(s[1]) THEN 2 ELSE 1, LAMBDA a :
            SubSeq(s, a, IF Len(s) >= a /\ IsSpace(s[Len(s)])
                         THEN Len(s) - 1 ELSE Len(s))))

RECURSIVE split(_)
\* str.split(' '): never empty, ''.split(' ') is ['']
split(str) ==
    Let(str, LAMBDA s :
        IF \E i \in 1..Len(s) : s[i] = " "
        THEN Let(CHOOSE k \in 1..Len(s) : s[k] = " " /\ \A m \in 1..(k - 1) : s[m] # " ",
                 LAMBDA i : <<SubSeq(s, 1, i - 1)>> \o split(SubSeq(s, i + 1, Len(s))))
        ELSE <<s>>)

RECURSIVE replaceAll(_, _, _)
\* str.replace(new RegExp(key, 'g'), value): leftmost non-overlapping
\* occurrences of key, the replacement text is not rescanned
replaceAll(str, key, value) ==
    Let3(str, key, value, LAMBDA s, k, v :
        IF Len(s) < Len(k) THEN s
        ELSE IF OccursAt(s, k, 1)
             THEN v \o replaceAll(SubSeq(s, Len(k) + 1, Len(s)), k, v)
             ELSE <<s[1]>> \o replaceAll(Tail(s), k, v))

\* ------------------------------------------------------------------------
\* FuzzySearch
\* ------------------------------------------------------------------------

RECURSIVE LevRow(_, _, _, _)
\* One row matrix[j] of the matrix, left to right; row is matrix[j][0..i-1]
\* and prev is matrix[j-1] (both 1-based here, so prev[i+1] is matrix[j-1][i]).
LevRow(str1, ch, prev, row) ==
    Let(<<str1, ch, prev, row>>, LAMBDA a :
        Let(Len(a[4]), LAMBDA i :
            IF i > Len(a[1]) THEN a[4]
            ELSE LevRow(a[1], a[2], a[3],
                        Append(a[4], Min2(Min2(a[4][i] + 1, a[3][i + 1] + 1),
                                          a[3][i] + (IF a[1][i] = a[2] THEN 0 ELSE 1))))))

RECURSIVE LevRows(_, _, _, _)
\* the rows matrix[j..], given prev = matrix[j-1]; the value is the last row
LevRows(str1, str2, j, prev) ==
    Let(<<str1, str2, j, prev>>, LAMBDA a :
        IF a[3] > Len(a[2]) THEN a[4]
        ELSE LevRows(a[1], a[2], a[3] + 1, LevRow(a[1], a[2][a[3]], a[4], <<a[3]>>)))

\* levenshteinDistance with the first row of the matrix left at 0
levenshteinDistanceZeroRow(str1, str2) ==
    Let2(str1, str2, LAMBDA s, t :
        LevRows(s, t, 1, List([i \in 1..(Len(s) + 1) |-> 0]))[Len(s) + 1])

levenshteinDistance(str1, str2) ==
    Let2(str1, str2, LAMBDA s, t :
        LevRows(s, t, 1, List([i \in 1..(Len(s) + 1) |-> i - 1]))[Len(s) + 1])

\* similarity taking str1 for the longer string whatever the lengths
similarityOfFirst(str1, str2) ==
    Let2(str1, str2, LAMBDA s, t :
        IF Len(s) = 0 THEN <<1, 1>>
        ELSE Rat(Len(s) - levenshteinDistance(s, t), Len(s)))

\* similarity returning distance / longer.length
similarityDistanceRatio(str1, str2) ==
    Let2(str1, str2, LAMBDA s, t :
        Let2(IF Len(s) > Len(t) THEN s ELSE t, IF Len(s) > Len(t) THEN t ELSE s,
             LAMBDA longer, shorter :
                IF Len(longer) = 0 THEN <<1, 1>>
                ELSE Rat(levenshteinDistance(longer, shorter), Len(longer))))

similarity(str1, str2) ==
    Let2(str1, str2, LAMBDA s, t :
        Let2(IF Len(s) > Len(t) THEN s ELSE t, IF Len(s) > Len(t) THEN t ELSE s,
             LAMBDA longer, shorter :
                IF Len(longer) = 0 THEN <<1, 1>>
                ELSE Rat(Len(longer) - levenshteinDistance(longer, shorter), Len(longer))))

\* String.prototype.normalize('NFC') on this alphabet: the one pair of code
\* units that composes is the Hangul jamo pair U+1100 U+1161, to U+AC00 (the
\* Bangla marks of the dictionary words compose with no letter)
nfc(str) == replaceAll(str, <<"U1100", "U1161">>, <<"UAC00">>)

\* lower-case, NFC, strip what is neither letter, number nor whitespace,
\* collapse the whitespace runs, trim
normalize(str) ==
    trim(CollapseSpaces(SelectSeq(nfc(toLowerCase(str)),
                                  LAMBDA c : IsLetterOrNumber(c) \/ IsSpace(c))))

RECURSIVE BestMatch(_, _, _)
\* Math.max(...textWords.map(w => similarity(queryWord, w))), textWords not empty
BestMatch(queryWord, textWords, k) ==
    Let3(queryWord, textWords, k, LAMBDA w, ts, i :
        IF i = Len(ts) THEN similarity(w, ts[i])
        ELSE RMax(similarity(w, ts[i]), BestMatch(w, ts, i + 1)))

RECURSIVE MatchTotals(_, _, _)
\* the forEach of getMatchScore: <<totalScore, matchCount>> over queryWords[k..]
MatchTotals(queryWords, textWords, k) ==
    Let3(queryWords, textWords, k, LAMBDA qs, ts, i :
        IF i > Len(qs) THEN <<<<0, 1>>, 0>>
        ELSE Let2(MatchTotals(qs, ts, i + 1), BestMatch(qs[i], ts, 1),
                  LAMBDA rest, bestMatch :
                     IF RLt(<<3, 5>>, bestMatch)
                     THEN <<RAdd(rest[1], bestMatch), rest[2] + 1>>
                     ELSE rest))

getMatchScore(query, text) ==
    Let2(normalize(query), normalize(text), LAMBDA normalizedQuery, normalizedText :
        IF includes(normalizedText, normalizedQuery) THEN <<1, 1>>
        ELSE Let2(split(normalizedQuery), split(normalizedText),
                  LAMBDA queryWords, textWords :
                     Let(MatchTotals(queryWords, textWords, 1), LAMBDA totals :
                        IF totals[2] > 0
                        THEN RMul(totals[1], <<1, Len(queryWords)>>)
                        ELSE <<0, 1>>)))

\* ------------------------------------------------------------------------
\* Transliteration
\* ------------------------------------------------------------------------

\* banglaToEnglish, in the order of the object literal: <<bangla, english>>
banglaToEnglish == <<
    << <<"U09AC","U09BE","U0982","U09B2","U09BE">>, <<"b","a","n","g","l","a">> >>,
    << <<"U09AC","U0987">>, <<"b","o","i">> >>,
    << <<"U09B2","U09C7","U0996","U0995">>, <<"l","e","k","h","o","k">> >>,
    << <<"U09AA","U09CD","U09B0","U0995","U09BE","U09B6","U0995">>,
       <<"p","r","o","k","a","s","h","o","k">> >>,
    << <<"U09AA","U09CD","U09B0","U0995","U09BE","U09B6","U09A8","U09C0">>,
       <<"p","r","o","k","a","s","h","o","n","i">> >>,
    << <<"U0989","U09AA","U09A8","U09CD","U09AF","U09BE","U09B8">>,
       <<"u","p","o","n","n","a","s","h">> >>,
    << <<"U0995","U09AC","U09BF","U09A4","U09BE">>, <<"k","o","b","i","t","a">> >>,
    << <<"U0997","U09B2","U09CD","U09AA">>, <<"g","o","l","p","o">> >>,
    << <<"U0987","U09A4","U09BF","U09B9","U09BE","U09B8">>, <<"i","t","i","h","a","s">> >>,
    << <<"U09AC","U09BF","U099C","U09CD","U099E","U09BE","U09A8">>,
       <<"b","i","g","g","a","n">> >>,
    << <<"U0997","U09A3","U09BF","U09A4">>, <<"g","o","n","i","t">> >>,
    << <<"U09AD","U09C2","U0997","U09CB","U09B2">>, <<"b","h","u","g","o","l">> >> >>

\* Object.fromEntries(entries.map(([k, v]) => [v, k])): <<english, bangla>>
englishToBangla ==
    List([i \in 1..Len(banglaToEnglish) |-> <<banglaToEnglish[i][2], banglaToEnglish[i][1]>>])

RECURSIVE ReplaceEach(_, _, _)
\* entries.forEach(([from, to]) => result = result.replace(RegExp(from,'g'), to))
ReplaceEach(result, entries, k) ==
    Let2(result, k, LAMBDA r, i :
        IF i > Len(entries) THEN r
        ELSE ReplaceEach(replaceAll(r, entries[i][1], entries[i][2]), entries, i + 1))

banglaToEng(text) == ReplaceEach(toLowerCase(text), banglaToEnglish, 1)

engToBangla(text) == ReplaceEach(toLowerCase(text), englishToBangla, 1)

\* [...new Set(list)]: first occurrences, in order
Distinct(list) ==
    Let(list, LAMBDA l :
        Let(SelectSeq(List([i \in 1..Len(l) |-> <<i, l[i]>>]),
                      LAMBDA p : \A j \in 1..(p[1] - 1) : l[j] # p[2]),
            LAMBDA kept : List([i \in 1..Len(kept) |-> kept[i][2]])))

\* getAllVariations returning the three strings without the Set
getAllVariationsList(query) ==
    Let(query, LAMBDA q : <<q, banglaToEng(q), engToBangla(q)>>)

getAllVariations(query) ==
    Let(query, LAMBDA q : Distinct(<<q, banglaToEng(q), engToBangla(q)>>))

\* ------------------------------------------------------------------------
\* SuggestionEngine
\* ------------------------------------------------------------------------

MAX_SUGGESTIONS == 1000

InBuffer(buffer, s) == \E i \in 1..Len(buffer) : buffer[i] = s

\* addQuery pushing the query as given instead of its normalized form
addQueryRaw(buffer, query) ==
    Let2(buffer, query, LAMBDA b, q :
        IF normalize(q) # <<>> /\ ~InBuffer(b, q)
        THEN IF Len(b) + 1 > MAX_SUGGESTIONS THEN Tail(Append(b, q)) ELSE Append(b, q)
        ELSE b)

\* addQuery evicting the newest entry (pop) instead of the oldest (shift)
addQueryPop(buffer, query) ==
    Let2(buffer, normalize(query), LAMBDA b, normalized :
        IF normalized # <<>> /\ ~InBuffer(b, normalized)
        THEN IF Len(b) + 1 > MAX_SUGGESTIONS THEN b ELSE Append(b, normalized)
        ELSE b)

\* addQuery without the includes() test
addQueryAlways(buffer, query) ==
    Let2(buffer, normalize(query), LAMBDA b, normalized :
        IF normalized # <<>>
        THEN IF Len(b) + 1 > MAX_SUGGESTIONS
             THEN Tail(Append(b, normalized))
             ELSE Append(b, normalized)
        ELSE b)

\* addQuery moving an entry that is recorded again to the end (last use)
addQueryMoveToEnd(buffer, query) ==
    Let2(buffer, normalize(query), LAMBDA b, normalized :
        IF normalized = <<>> THEN b
        ELSE IF InBuffer(b, normalized)
        THEN Append(SelectSeq(b, LAMBDA s : s # normalized), normalized)
        ELSE IF Len(b) + 1 > MAX_SUGGESTIONS
             THEN Tail(Append(b, normalized))
             ELSE Append(b, normalized))

\* the buffer after SuggestionEngine.addQuery(query)
addQuery(buffer, query) ==
    Let2(buffer, normalize(query), LAMBDA b, normalized :
        IF normalized # <<>> /\ ~InBuffer(b, normalized)
        THEN IF Len(b) + 1 > MAX_SUGGESTIONS
             THEN Tail(Append(b, normalized))
             ELSE Append(b, normalized)
        ELSE b)

\* ------------------------------------------------------------------------
\* SearchRanking
\* ------------------------------------------------------------------------

\* Depth of nested calculateScore frames the engine's call stack holds; one
\* more frame raises RangeError (Maximum call stack size exceeded).
MaxCallStack == 3

\* A synchronous computation either returns v or throws.
Returns(v) == [ok |-> TRUE, v |-> v]
Throws == [ok |-> FALSE, v |-> <<>>]

\* an optional text column: <<>> is NULL/undefined, <<s>> holds the string s;
\* if (book.author) is false for undefined, null and ''
Truthy(field) == Let(field, LAMBDA f : f # <<>> /\ f[1] # <<>>)

FieldScore(normalizedQuery, field, weight) ==
    Let(field, LAMBDA f :
        IF Truthy(f)
        THEN RMul(getMatchScore(normalizedQuery, f[1]), <<weight, 1>>)
        ELSE <<0, 1>>)

\* DirectScore with the weights of name and author exchanged
DirectScoreAuthorFirst(query, book) ==
    Let2(normalize(query), book, LAMBDA normalizedQuery, b :
        RAdd(RAdd(RMul(getMatchScore(normalizedQuery, b.name), <<3, 1>>),
                  FieldScore(normalizedQuery, b.author, 5)),
             RAdd(FieldScore(normalizedQuery, b.publisher, 2),
                  FieldScore(normalizedQuery, b.notes, 1))))

\* totalScore before the transliteration loop
DirectScore(query, book) ==
    Let2(normalize(query), book, LAMBDA normalizedQuery, b :
        RAdd(RAdd(RMul(getMatchScore(normalizedQuery, b.name), <<5, 1>>),
                  FieldScore(normalizedQuery, b.author, 3)),
             RAdd(FieldScore(normalizedQuery, b.publisher, 2),
                  FieldScore(normalizedQuery, b.notes, 1))))

\* Cap without the cap
CapMissing(totalScore) == totalScore

\* Math.min(totalScore, 10)
Cap(totalScore) == RMin(totalScore, <<10, 1>>)

RECURSIVE calculateScoreAt(_, _, _)
RECURSIVE AddVariations(_, _, _, _, _, _)

\* variations.forEach(...) from index k on, totalScore so far; a throw of a
\* nested call ends the loop and propagates
AddVariations(variations, k, query, book, depth, totalScore) ==
    Let(<<variations, k, query, book, depth, totalScore>>, LAMBDA a :
        IF a[2] > Len(a[1]) THEN Returns(a[6])
        ELSE IF a[1][a[2]] # a[3]
             THEN Let(calculateScoreAt(a[1][a[2]], a[4], a[5] + 1), LAMBDA translitScore :
                     IF translitScore.ok
                     THEN AddVariations(a[1], a[2] + 1, a[3], a[4], a[5],
                                        RAdd(a[6], RMul(translitScore.v, <<4, 5>>)))
                     ELSE Throws)
             ELSE AddVariations(a[1], a[2] + 1, a[3], a[4], a[5], a[6]))

\* calculateScore entered with depth - 1 frames of it already on the stack
calculateScoreAt(query, book, depth) ==
    Let3(query, book, depth, LAMBDA q, b, d :
        IF d > MaxCallStack THEN Throws
        ELSE Let(AddVariations(getAllVariations(q), 1, q, b, d, DirectScore(q, b)),
                 LAMBDA totalScore :
                    IF totalScore.ok THEN Returns(Cap(totalScore.v)) ELSE Throws))

calculateScore(query, book) == calculateScoreAt(query, book, 1)

\* a sort that puts items of equal score in reverse input order
SortByScoreTiesReversed(scored) ==
    Let(scored, LAMBDA s :
        Let(List([i \in 1..Len(s) |->
                    1 + Cardinality({j \in 1..Len(s) : RLt(s[i].score, s[j].score)})
                      + Cardinality({j \in (i + 1)..Len(s) : s[j].score = s[i].score})]),
            LAMBDA pos : List([p \in 1..Len(s) |-> s[CHOOSE i \in 1..Len(s) : pos[i] = p]])))

\* Array.prototype.sort with comparator (a, b) => b.score - a.score (stable)
SortByScoreDesc(scored) ==
    Let(scored, LAMBDA s :
        Let(List([i \in 1..Len(s) |->
                    1 + Cardinality({j \in 1..Len(s) : RLt(s[i].score, s[j].score)})
                      + Cardinality({j \in 1..(i - 1) : s[j].score = s[i].score})]),
            LAMBDA pos : List([p \in 1..Len(s) |-> s[CHOOSE i \in 1..Len(s) : pos[i] = p]])))

\* a filter that keeps the scores at or below the threshold
BelowThreshold(scored, threshold) ==
    SelectSeq(scored, LAMBDA s : RLeq(s.score, threshold))

\* .filter(({ score }) => score >= threshold)
AboveThreshold(scored, threshold) ==
    SelectSeq(scored, LAMBDA s : RLeq(threshold, s.score))

rankResults(query, items, threshold) ==
    Let2(query, items, LAMBDA q, its :
        Let(List([i \in 1..Len(its) |-> calculateScore(q, its[i])]), LAMBDA results :
            IF \E i \in 1..Len(its) : ~results[i].ok THEN Throws
            ELSE Let(SortByScoreDesc(AboveThreshold(
                         List([i \in 1..Len(its) |-> [item |-> its[i], score |-> results[i].v]]),
                         threshold)),
                     LAMBDA scoredItems :
                        Returns(List([i \in 1..Len(scoredItems) |-> scoredItems[i].item])))))

\* ------------------------------------------------------------------------
\* DatabaseManager: the books table and its queries
\* ------------------------------------------------------------------------

\* SQL LIKE: % is any run of characters, _ any one character, ASCII letters
\* compare case-insensitively
RECURSIVE like(_, _)
like(str, pattern) ==
    Let2(str, pattern, LAMBDA s, p :
        IF p = <<>> THEN s = <<>>
        ELSE IF p[1] = "%"
             THEN \E k \in 0..Len(s) : like(SubSeq(s, k + 1, Len(s)), Tail(p))
             ELSE /\ s # <<>>
                  /\ p[1] = "_" \/ toLowerCase1(p[1]) = toLowerCase1(s[1])
                  /\ like(Tail(s), Tail(p)))

\* LOWER(column) LIKE pattern; NULL LIKE pattern is NULL, which selects nothing
ColumnLike(field, pattern) ==
    Let(field, LAMBDA f : f # <<>> /\ like(toLowerCase(f[1]), pattern))

\* whether key a sorts before key b (tuples of integers, lexicographic)
KeyLess(a, b) == \E k \in 1..Len(a) : a[k] < b[k] /\ \A m \in 1..(k - 1) : a[m] = b[m]

\* ORDER BY key(row) ASC over rows; rows of equal key stay in table order
OrderBy(rows, key(_)) ==
    Let(rows, LAMBDA rs :
        Let(List([i \in 1..Len(rs) |-> key(rs[i])]), LAMBDA keys :
            Let(List([i \in 1..Len(rs) |->
                        1 + Cardinality({j \in 1..Len(rs) : KeyLess(keys[j], keys[i])})
                          + Cardinality({j \in 1..(i - 1) : keys[j] = keys[i]})]),
                LAMBDA pos :
                   List([p \in 1..Len(rs) |-> rs[CHOOSE i \in 1..Len(rs) : pos[i] = p]]))))

\* SELECT * FROM books ORDER BY updatedAt DESC
getAllBooks(table) == OrderBy(table, LAMBDA row : <<0 - row.updatedAt>>)

\* the CASE expression of the indexed query, q = query.toLowerCase()
Tier(row, q) ==
    IF toLowerCase(row.name) = toLowerCase(q) THEN 1
    ELSE IF like(toLowerCase(row.name), q \o <<"%">>) THEN 2
    ELSE IF ColumnLike(row.author, <<"%">> \o q \o <<"%">>) THEN 3
    ELSE 4

\* the indexed query of searchBooks
IndexedLookup(table, query) ==
    Let(toLowerCase(query), LAMBDA q :
        Let(<<"%">> \o q \o <<"%">>, LAMBDA searchTerm :
            OrderBy(SelectSeq(table, LAMBDA row :
                        \/ like(toLowerCase(row.name), searchTerm)
                        \/ ColumnLike(row.author, searchTerm)
                        \/ ColumnLike(row.publisher, searchTerm)),
                    LAMBDA row : <<Tier(row, q), 0 - row.updatedAt>>)))

\* the escalation test written ftsResults.length >= 2
MinIndexedResultsTwo == 3 - 1

\* the escalation constant of searchBooks: ftsResults.length >= 3
MIN_INDEXED_RESULTS == 3

\* rankedResults.slice(0, 50)
MAX_RESULTS == 50

\* the threshold searchBooks passes to rankResults
RANK_THRESHOLD == <<3, 10>>

\* PushUnique without the find() test
PushAll(rankedResults, variantResults) == rankedResults \o variantResults

\* variantResults.forEach(book => { if (!find(same id)) rankedResults.push(book) })
PushUnique(rankedResults, variantResults) ==
    Let(rankedResults, LAMBDA ranked :
        ranked \o SelectSeq(variantResults,
                            LAMBDA book : ~\E i \in 1..Len(ranked) : ranked[i].id = book.id))

RECURSIVE MergeVariations(_, _, _, _, _)
\* for (const variation of variations) from index k on; the value is
\* <<rankedResults or a throw, rankResults calls made>>
MergeVariations(variations, k, query, catalog, merged) ==
    Let(<<variations, k, query, catalog, merged>>, LAMBDA a :
        IF a[2] > Len(a[1]) THEN <<Returns(a[5][1]), a[5][2]>>
        ELSE IF a[1][a[2]] # a[3]
             THEN Let(rankResults(a[1][a[2]], a[4], RANK_THRESHOLD), LAMBDA variantResults :
                     IF variantResults.ok
                     THEN MergeVariations(a[1], a[2] + 1, a[3], a[4],
                                          <<PushUnique(a[5][1], variantResults.v), a[5][2] + 1>>)
                     ELSE <<Throws, a[5][2] + 1>>)
             ELSE MergeVariations(a[1], a[2] + 1, a[3], a[4], a[5]))

\* rankResults sorting the items array itself (items.sort(...)) when every
\* score could be computed
itemsSortedInPlace(query, items, threshold) ==
    Let2(query, items, LAMBDA q, its :
        Let(List([i \in 1..Len(its) |-> calculateScore(q, its[i])]), LAMBDA results :
            IF \E i \in 1..Len(its) : ~results[i].ok THEN its
            ELSE Let(SortByScoreDesc(
                         List([i \in 1..Len(its) |-> [item |-> its[i], score |-> results[i].v]])),
                     LAMBDA sorted : List([i \in 1..Len(sorted) |-> sorted[i].item]))))

\* what the array passed as items holds after rankResults: items.map(...)
\* builds a new array, filter and sort work on that array, and no record is
\* assigned to
itemsAfterRankResults(query, items, threshold) == items

RECURSIVE allBooksAfterVariations(_, _, _, _)
\* what allBooks holds after the loop over the variations from index k on
allBooksAfterVariations(variations, k, query, catalog) ==
    IF k > Len(variations) THEN catalog
    ELSE IF variations[k] # query
         THEN allBooksAfterVariations(variations, k + 1, query,
                  itemsAfterRankResults(variations[k], catalog, RANK_THRESHOLD))
         ELSE allBooksAfterVariations(variations, k + 1, query, catalog)

\* what allBooks holds when searchBooks is through with it: the pushes of the
\* merge go to rankedResults, the array rankResults returned
allBooksAfterMerge(query, catalog) ==
    allBooksAfterVariations(getAllVariations(query), 1, query,
                            itemsAfterRankResults(query, catalog, RANK_THRESHOLD))

\* searchBooks after getAllBooks resolved with catalog:
\* <<the merged rankedResults or the throw of a rankResults call, rankResults calls made>>
FuzzyMerge(query, catalog) ==
    Let2(query, catalog, LAMBDA q, c :
        Let(rankResults(q, c, RANK_THRESHOLD), LAMBDA rankedResults :
            IF rankedResults.ok
            THEN MergeVariations(getAllVariations(q), 1, q, c, <<rankedResults.v, 1>>)
            ELSE <<Throws, 1>>))

\* slice that drops nothing
SliceAll(list, n) == list

\* list.slice(0, n)
Slice(list, n) == Let(list, LAMBDA l : SubSeq(l, 1, Min2(n, Len(l))))

\* DatabaseManager.searchBooks(query) when each of its fetches resolves: the
\* list it returns, or the throw of a rankResults call
databaseSearchBooks(table, query) ==
    Let2(table, query, LAMBDA t, q :
        Let(IndexedLookup(t, q), LAMBDA fts :
            IF Len(fts) >= MIN_INDEXED_RESULTS THEN Returns(fts)
            ELSE Let(FuzzyMerge(q, getAllBooks(t))[1], LAMBDA merged :
                     IF merged.ok THEN Returns(Slice(merged.v, MAX_RESULTS)) ELSE Throws)))

\* the store-level searchBooks(query) on top of it: a throw is caught
storeSearchBooks(table, query) ==
    Let(databaseSearchBooks(table, query), LAMBDA results :
        IF results.ok THEN results.v ELSE <<>>)

\* str.startsWith(prefix)
startsWith(str, prefix) == Let2(str, prefix, LAMBDA s, t : OccursAt(s, t, 1))

\* the filter of getSuggestions
SuggestionMatches(suggestion, normalized) ==
    \/ includes(suggestion, normalized)
    \/ RLt(<<7, 10>>, similarity(normalized, suggestion))

\* a comparator that goes by match score alone
ByMatchScoreOnly(a, b, normalized) ==
    RLt(getMatchScore(normalized, b), getMatchScore(normalized, a))

\* the comparator of getSuggestions returns a negative number: a sorts before b
SortsBefore(a, b, normalized) ==
    Let2(startsWith(a, normalized), startsWith(b, normalized), LAMBDA aStarts, bStarts :
        IF aStarts /\ ~bStarts THEN TRUE
        ELSE IF ~aStarts /\ bStarts THEN FALSE
        ELSE RLt(getMatchScore(normalized, b), getMatchScore(normalized, a)))

\* Array.prototype.sort with that comparator (stable)
SortSuggestions(list, normalized) ==
    Let2(list, normalized, LAMBDA l, n :
        Let(List([i \in 1..Len(l) |->
                    1 + Cardinality({j \in 1..Len(l) : SortsBefore(l[j], l[i], n)})
                      + Cardinality({j \in 1..(i - 1) :
                            ~SortsBefore(l[j], l[i], n) /\ ~SortsBefore(l[i], l[j], n)})]),
            LAMBDA pos : List([p \in 1..Len(l) |-> l[CHOOSE i \in 1..Len(l) : pos[i] = p]])))

\* SuggestionEngine.getSuggestions(partialQuery, limit) on the buffer
getSuggestions(buffer, partial, lim) ==
    Let(normalize(partial), LAMBDA normalized :
        IF normalized = <<>> THEN <<>>
        ELSE Slice(SortSuggestions(SelectSeq(buffer,
                                             LAMBDA suggestion :
                                                SuggestionMatches(suggestion, normalized)),
                                   normalized),
                   lim))

\* ------------------------------------------------------------------------
\* Inputs: catalogs and query strings
\* ------------------------------------------------------------------------

NULL == <<>>

Book(id, name, author, publisher, notes, updatedAt) ==
    [id |-> id, name |-> name, author |-> author, publisher |-> publisher,
     notes |-> notes, updatedAt |-> updatedAt]

sBook   == <<"B","o","o","k">>
sBoko   == <<"B","o","k","o">>
sBokTol == <<"B","o","k"," ","T","o","l">>
sBoi    == <<"b","o","i">>
sBangla == <<"U09AC","U0987">>
sTom    == <<"T","o","m">>
sGood   == <<"G","o","o","d">>
sOld    == <<"o","l","d">>

\* rows in insertion order; updatedAt is distinct per row
CatalogSmall == <<
    Book(1, sBook,   <<sTom>>, <<sGood>>, <<sOld>>, 5),
    Book(2, sBoko,   NULL,     NULL,      <<<<>>>>, 9),
    Book(3, sBangla, <<sTom>>, NULL,      NULL,     7),
    Book(4, sBokTol, NULL,     <<sGood>>, NULL,     3) >>

CatalogTwo == <<
    Book(1, sBook,   <<sTom>>, <<sGood>>, <<sOld>>, 2),
    Book(3, sBangla, NULL,     NULL,      NULL,     4) >>

\* Number of rows of the large catalog (more than MAX_RESULTS).
BigCatalogSize == 51

CatalogBig ==
    List([i \in 1..BigCatalogSize |->
        Book(i, IF i % 3 = 0 THEN sBook ELSE IF i % 3 = 1 THEN sBoko ELSE sBokTol,
             IF i % 2 = 0 THEN <<sTom>> ELSE NULL, NULL, NULL, 100 + ((i * 7) % 53))])

\* BigCatalogSize rows that only match 'bok' fuzzily, by name, and one row
\* that holds it in its publisher
CatalogCrowded ==
    List([i \in 1..(BigCatalogSize + 1) |->
        IF i <= BigCatalogSize
        THEN Book(i, sBook, NULL, NULL, NULL, 100 + i)
        ELSE Book(i, sTom, NULL, <<sBoko>>, NULL, 1)])

Catalogs == {<<>>, CatalogTwo, CatalogSmall, CatalogBig, CatalogCrowded}

Queries == {
    <<>>,                              \* ''
    <<" ">>,                           \* whitespace only
    <<"!">>,                           \* punctuation only
    <<"o">>,
    <<"O">>,
    <<"b","o">>,
    <<"b","o","o","k">>,
    <<"B","o","k">>,
    <<"b","o","k">>,
    <<"b","o","k"," ","t","o","m">>,
    <<"x","y","z">>,
    <<"b","_","k">>,                   \* holds a LIKE wildcard
    sBoi,
    <<"B","O","I">>,
    sBangla }

\* Number of searchBooks calls of one behaviour.
MaxSearches == 1

\* Number of times the text of the search bar changes.
MaxTextChanges == 3

\* what is typed into the search bar
InventoryTexts == {<<>>, <<" ">>, <<"b","o">>, <<" ","x","y","z">>, <<"T","o","m"," ">>}

\* Number of callers of DatabaseManager.init.
MaxCallers == 3

Callers == 1..MaxCallers

\* the arguments calculateScore is applied to
ScoreQueries == Queries \cup {<<"o","l","d"," ","b","o","k">>, sBoi \o <<" ">> \o sBangla}

ScoreBooks ==
    {CatalogSmall[i] : i \in 1..Len(CatalogSmall)} \cup
    {CatalogTwo[i] : i \in 1..Len(CatalogTwo)} \cup
    {Book(5, sBoi, NULL, NULL, <<sBangla>>, 1), Book(6, sTom, <<sBook>>, <<sOld>>, NULL, 2)}

\* Number of distinct queries recorded into the suggestion buffer.
MaxFresh == 1002

RECURSIVE Decimal(_)
\* String(n) for n >= 0
Decimal(n) == Let(n, LAMBDA x :
    IF x < 10 THEN <<Digit[x + 1]>> ELSE Decimal(x \div 10) \o <<Digit[(x % 10) + 1]>>)

\* the k-th distinct query: "Q<k>!" (normalized "q<k>")
FreshQuery(k) == <<"Q">> \o Decimal(k) \o <<"!">>

\* ------------------------------------------------------------------------
\* State
\* ------------------------------------------------------------------------

VARIABLES
    books,          \* the books table (rows in insertion order)
    suggestions,    \* SuggestionEngine.suggestions
    pc,             \* where the store-level searchBooks call stands
    query,          \* its argument
    ftsResults,     \* DatabaseManager.searchBooks: <<result of the indexed query>> once resolved
    allBooks,       \* ... <<result of getAllBooks>> once resolved
    rankedResults,  \* ... the merged list before slice
    fetchError,     \* the fetch that rejected: "none", "indexed", "getAllBooks"
    dbOutcome,      \* how database.searchBooks ended: "pending", "returned", "threw"
    dbResult,       \* the list it returned
    storeOutcome,   \* how the store-level searchBooks ended: "pending", "returned", "threw"
    storeResult,    \* the list it returned
    nIndexed,       \* indexed queries issued by this call
    nGetAll,        \* getAllBooks calls of this call
    nRank,          \* rankResults calls of this call
    nSearches,      \* searchBooks calls so far
    searchQueries,  \* rows of the search_queries table: <<query, resultsCount>>
    scorePc,        \* calculateScore applied alone: "idle" or "done"
    scoreQuery,     \* ... its arguments
    scoreBook,
    scoreResult,    \* ... what it returned, or the throw
    suggestQuery,   \* addQuery applied alone: the argument of the last call
    nFresh,         \* ... how many distinct queries were recorded
    fuzzyPc,        \* FuzzySearch applied alone: "idle" or the method called
    fuzzyArgs,      \* ... the two arguments of the call
    fuzzyResult,    \* ... the number it returned
    translitPc,     \* Transliteration applied alone: "idle" or the method called
    translitText,   \* ... its argument
    translitResult, \* ... the string (getAllVariations: the list) it returned
    rankPc,         \* rankResults applied alone: "idle", "ranked" or "rankedAgain"
    rankQuery,      \* ... its arguments
    rankItems,
    rankThreshold,
    rankResult,     \* ... what it returned, or the throw
    rankAgainThreshold, \* the threshold of a second call on the same query and items
    rankAgainResult,    \* ... what that call returned
    suggestPc,      \* getSuggestions applied alone: "idle" or "done"
    partialQuery,   \* ... its arguments
    limit,
    matches,        \* ... the list it returned
    searchQuery,    \* InventoryScreen: the text of the search bar
    filteredBooks,  \* ... the list displayed
    isSearching,    \* ... the spinner flag
    inFlight,       \* ... the performSearch calls awaiting searchBooks: [n, text]
    nTextChanges,   \* ... how often the text changed
    db,             \* DatabaseManager.db: NULL or <<handle>>
    initPc,         \* init(): where each caller stands
    initResult,     \* ... what it returned to each caller: NULL or <<handle>>
    nOpens,         \* openDatabaseAsync calls so far
    tablesCreated   \* the CREATE TABLE batch of createTables has completed

searchVars == <<books, suggestions, pc, query, ftsResults, allBooks, rankedResults,
                fetchError, dbOutcome, dbResult, storeOutcome, storeResult, nIndexed,
                nGetAll, nRank, nSearches, searchQueries>>

scoreVars == <<scorePc, scoreQuery, scoreBook, scoreResult>>

suggestVars == <<suggestQuery, nFresh>>

fuzzyVars == <<fuzzyPc, fuzzyArgs, fuzzyResult>>

translitVars == <<translitPc, translitText, translitResult>>

rankVars == <<rankPc, rankQuery, rankItems, rankThreshold, rankResult, rankAgainThreshold,
              rankAgainResult>>

getSuggestionsVars == <<suggestPc, partialQuery, limit, matches>>

inventoryVars == <<searchQuery, filteredBooks, isSearching, inFlight, nTextChanges>>

initVars == <<db, initPc, initResult, nOpens, tablesCreated>>

\* the state of the functions applied alone, other than calculateScore and
\* addQuery, of the inventory screen and of DatabaseManager.init
callVars == <<fuzzyVars, translitVars, rankVars, getSuggestionsVars, inventoryVars, initVars>>

vars == <<searchVars, scoreVars, suggestVars, callVars>>

SearchIdle ==
    /\ suggestions = <<>>
    /\ pc = "idle"
    /\ query = <<>>
    /\ ftsResults = <<>>
    /\ allBooks = <<>>
    /\ rankedResults = <<>>
    /\ fetchError = "none"
    /\ dbOutcome = "pending"
    /\ dbResult = <<>>
    /\ storeOutcome = "pending"
    /\ storeResult = <<>>
    /\ nIndexed = 0
    /\ nGetAll = 0
    /\ nRank = 0
    /\ nSearches = 0
    /\ searchQueries = <<>>

ScoreIdle ==
    /\ scorePc = "idle"
    /\ scoreQuery = <<>>
    /\ scoreBook = Book(0, <<>>, NULL, NULL, NULL, 0)
    /\ scoreResult = Returns(<<0, 1>>)

SuggestIdle ==
    /\ suggestQuery = <<>>
    /\ nFresh = 0

\* InventoryScreen before its first effect has run (useState initial values)
InventoryUnmounted ==
    /\ searchQuery = <<>>
    /\ filteredBooks = <<>>
    /\ isSearching = FALSE
    /\ inFlight = {}
    /\ nTextChanges = 0

\* InventoryScreen after the effect of the first render: the text is empty,
\* setFilteredBooks(books)
InventoryMounted ==
    /\ searchQuery = <<>>
    /\ filteredBooks = books
    /\ isSearching = FALSE
    /\ inFlight = {}
    /\ nTextChanges = 0

\* DatabaseManager as constructed: db = null
DatabaseClosed ==
    /\ db = NULL
    /\ initPc = [c \in Callers |-> "idle"]
    /\ initResult = [c \in Callers |-> NULL]
    /\ nOpens = 0
    /\ tablesCreated = FALSE

\* DatabaseManager after one init() has run to its end
DatabaseOpen ==
    /\ db = <<1>>
    /\ initPc = [c \in Callers |-> "idle"]
    /\ initResult = [c \in Callers |-> NULL]
    /\ nOpens = 1
    /\ tablesCreated = TRUE

FunctionsIdle ==
    /\ fuzzyPc = "idle"
    /\ fuzzyArgs = <<<<>>, <<>>>>
    /\ fuzzyResult = <<0, 1>>
    /\ translitPc = "idle"
    /\ translitText = <<>>
    /\ translitResult = <<>>
    /\ rankPc = "idle"
    /\ rankQuery = <<>>
    /\ rankItems = <<>>
    /\ rankThreshold = <<0, 1>>
    /\ rankResult = Returns(<<>>)
    /\ rankAgainThreshold = <<0, 1>>
    /\ rankAgainResult = Returns(<<>>)
    /\ suggestPc = "idle"
    /\ partialQuery = <<>>
    /\ limit = 0
    /\ matches = <<>>

CallsIdle ==
    /\ FunctionsIdle
    /\ InventoryUnmounted
    /\ DatabaseClosed

Init ==
    /\ books \in Catalogs
    /\ SearchIdle
    /\ ScoreIdle
    /\ SuggestIdle
    /\ FunctionsIdle
    /\ InventoryUnmounted
    /\ DatabaseOpen

\* ------------------------------------------------------------------------
\* searchBooks (useBookStore) calling DatabaseManager.searchBooks
\* ------------------------------------------------------------------------

\* a catch that rethrows
StoreRethrows ==
    /\ storeOutcome' = "threw"
    /\ storeResult' = <<>>
    /\ pc' = "done"

\* the store-level catch: log and return []
StoreCatches ==
    /\ storeOutcome' = "returned"
    /\ storeResult' = <<>>
    /\ pc' = "done"

\* searchBooks(q) is called; database.searchBooks issues the indexed query
\* and awaits it (init() finds the database open)
SearchBooks(q) ==
    /\ pc \in {"idle", "done"}
    /\ nSearches < MaxSearches
    /\ nSearches' = nSearches + 1
    /\ query' = q
    /\ pc' = "indexed"
    /\ nIndexed' = 1
    /\ nGetAll' = 0
    /\ nRank' = 0
    /\ ftsResults' = <<>>
    /\ allBooks' = <<>>
    /\ rankedResults' = <<>>
    /\ fetchError' = "none"
    /\ dbOutcome' = "pending"
    /\ dbResult' = <<>>
    /\ storeOutcome' = "pending"
    /\ storeResult' = <<>>
    /\ UNCHANGED <<books, suggestions, searchQueries, scoreVars, suggestVars, callVars>>

\* the indexed query resolves
IndexedResolves ==
    /\ pc = "indexed"
    /\ \E fts \in {IndexedLookup(books, query)} :
           /\ ftsResults' = <<fts>>
           /\ IF Len(fts) >= MIN_INDEXED_RESULTS
              THEN /\ suggestions' = addQuery(suggestions, query)
                   /\ dbOutcome' = "returned"
                   /\ dbResult' = fts
                   /\ pc' = "recordSearch"
                   /\ UNCHANGED nGetAll
              ELSE /\ nGetAll' = nGetAll + 1
                   /\ pc' = "getAllBooks"
                   /\ UNCHANGED <<suggestions, dbOutcome, dbResult>>
    /\ UNCHANGED <<books, query, allBooks, rankedResults, fetchError, storeOutcome,
                   storeResult, nIndexed, nRank, nSearches, searchQueries, scoreVars,
                   suggestVars, callVars>>

\* the indexed query rejects: database.searchBooks throws, the store catches
IndexedRejects ==
    /\ pc = "indexed"
    /\ fetchError' = "indexed"
    /\ dbOutcome' = "threw"
    /\ StoreCatches
    /\ UNCHANGED <<books, suggestions, query, ftsResults, allBooks, rankedResults, dbResult,
                   nIndexed, nGetAll, nRank, nSearches, searchQueries, scoreVars,
                   suggestVars, callVars>>

\* getAllBooks resolves: rank, merge the variations, record the query, slice
GetAllBooksResolves ==
    /\ pc = "getAllBooks"
    /\ \E catalog \in {getAllBooks(books)} :
       \E merged \in {FuzzyMerge(query, catalog)} :
           /\ allBooks' = <<allBooksAfterMerge(query, catalog)>>
           /\ nRank' = merged[2]
           /\ IF merged[1].ok
              THEN /\ rankedResults' = merged[1].v
                   /\ suggestions' = addQuery(suggestions, query)
                   /\ dbOutcome' = "returned"
                   /\ dbResult' = Slice(merged[1].v, MAX_RESULTS)
                   /\ pc' = "recordSearch"
                   /\ UNCHANGED <<storeOutcome, storeResult>>
              ELSE /\ dbOutcome' = "threw"
                   /\ StoreCatches
                   /\ UNCHANGED <<rankedResults, suggestions, dbResult>>
    /\ UNCHANGED <<books, query, ftsResults, fetchError, nIndexed, nGetAll, nSearches,
                   searchQueries, scoreVars, suggestVars, callVars>>

\* getAllBooks rejects
GetAllBooksRejects ==
    /\ pc = "getAllBooks"
    /\ fetchError' = "getAllBooks"
    /\ dbOutcome' = "threw"
    /\ StoreCatches
    /\ UNCHANGED <<books, suggestions, query, ftsResults, allBooks, rankedResults, dbResult,
                   nIndexed, nGetAll, nRank, nSearches, searchQueries, scoreVars,
                   suggestVars, callVars>>

\* recordSearch resolves: the store returns the results
RecordSearchResolves ==
    /\ pc = "recordSearch"
    /\ searchQueries' = Append(searchQueries, <<query, Len(dbResult)>>)
    /\ storeOutcome' = "returned"
    /\ storeResult' = dbResult
    /\ pc' = "done"
    /\ UNCHANGED <<books, suggestions, query, ftsResults, allBooks, rankedResults,
                   fetchError, dbOutcome, dbResult, nIndexed, nGetAll, nRank, nSearches,
                   scoreVars, suggestVars, callVars>>

\* recordSearch rejects: the same catch
RecordSearchRejects ==
    /\ pc = "recordSearch"
    /\ StoreCatches
    /\ UNCHANGED <<books, suggestions, query, ftsResults, allBooks, rankedResults,
                   fetchError, dbOutcome, dbResult, nIndexed, nGetAll, nRank, nSearches,
                   searchQueries, scoreVars, suggestVars, callVars>>

Next ==
    \/ \E q \in Queries : SearchBooks(q)
    \/ IndexedResolves
    \/ IndexedRejects
    \/ GetAllBooksResolves
    \/ GetAllBooksRejects
    \/ RecordSearchResolves
    \/ RecordSearchRejects

Spec == Init /\ [][Next]_vars

\* ------------------------------------------------------------------------
\* SearchRanking.calculateScore applied to one query and one record
\* ------------------------------------------------------------------------

InitScore ==
    /\ books = <<>>
    /\ SearchIdle
    /\ ScoreIdle
    /\ SuggestIdle
    /\ CallsIdle

CalculateScore(q, b) ==
    /\ scorePc = "idle"
    /\ scorePc' = "done"
    /\ scoreQuery' = q
    /\ scoreBook' = b
    /\ scoreResult' = calculateScore(q, b)
    /\ UNCHANGED <<searchVars, suggestVars, callVars>>

NextScore == \E q \in ScoreQueries, b \in ScoreBooks : CalculateScore(q, b)

SpecScore == InitScore /\ [][NextScore]_vars

\* ------------------------------------------------------------------------
\* SuggestionEngine.addQuery applied to a run of queries
\* ------------------------------------------------------------------------

InitSuggest ==
    /\ books = <<>>
    /\ SearchIdle
    /\ ScoreIdle
    /\ SuggestIdle
    /\ CallsIdle

AddQuery(q) ==
    /\ suggestQuery' = q
    /\ suggestions' = addQuery(suggestions, q)
    /\ UNCHANGED <<books, pc, query, ftsResults, allBooks, rankedResults, fetchError,
                   dbOutcome, dbResult, storeOutcome, storeResult, nIndexed, nGetAll, nRank,
                   nSearches, searchQueries, scoreVars, callVars>>

\* a query not recorded before
AddFresh ==
    /\ nFresh < MaxFresh
    /\ nFresh' = nFresh + 1
    /\ AddQuery(FreshQuery(nFresh + 1))

\* a query whose normalized form is in the buffer (its oldest or newest entry)
AddPresent ==
    /\ suggestions # <<>>
    /\ \E i \in {1, Len(suggestions)} : AddQuery(<<" ">> \o toLowerCase(suggestions[i]) \o <<"?">>)
    /\ UNCHANGED nFresh

\* a query that normalizes to the empty string
AddEmpty ==
    /\ \E q \in {<<>>, <<" ", "!">>} : AddQuery(q)
    /\ UNCHANGED nFresh

NextSuggest == AddFresh \/ AddPresent \/ AddEmpty

SpecSuggest == InitSuggest /\ [][NextSuggest]_vars

\* ------------------------------------------------------------------------
\* FuzzySearch.similarity and FuzzySearch.getMatchScore applied alone
\* ------------------------------------------------------------------------

\* Length of the longest string similarity is applied to.
MaxStrLen == 3

SimilarityAlphabet == {"a", "b"}

SimilarityStrings ==
    {List(f) : f \in UNION {[1..n -> SimilarityAlphabet] : n \in 0..MaxStrLen}}

\* Number of words of the longest query getMatchScore is applied to.
MaxQueryWords == 2

MatchWords == {<<"b","o","k">>, <<"o","l","d">>, <<"x","y","z">>, <<"t","o","m">>}

RECURSIVE JoinWords(_)
\* words.join(' ')
JoinWords(words) ==
    IF Len(words) = 1 THEN words[1] ELSE words[1] \o <<" ">> \o JoinWords(Tail(words))

MatchQueries ==
    {<<>>, <<"!">>, <<"B","o","o","k","!">>} \cup
    {JoinWords(List(ws)) : ws \in UNION {[1..n -> MatchWords] : n \in 1..MaxQueryWords}}

MatchTexts ==
    {<<>>, sBook, sBoko, sBokTol, sTom,
     <<"G","o","o","d"," ","O","l","d"," ","T","o","m">>,
     <<"o","l","d"," "," ","b","o","o","k",".">>}

InitFuzzy ==
    /\ books = <<>>
    /\ SearchIdle
    /\ ScoreIdle
    /\ SuggestIdle
    /\ CallsIdle

Similarity(str1, str2) ==
    /\ fuzzyPc = "idle"
    /\ fuzzyPc' = "similarity"
    /\ fuzzyArgs' = <<str1, str2>>
    /\ fuzzyResult' = similarity(str1, str2)
    /\ UNCHANGED <<searchVars, scoreVars, suggestVars, translitVars, rankVars,
                   getSuggestionsVars, inventoryVars, initVars>>

GetMatchScore(q, text) ==
    /\ fuzzyPc = "idle"
    /\ fuzzyPc' = "getMatchScore"
    /\ fuzzyArgs' = <<q, text>>
    /\ fuzzyResult' = getMatchScore(q, text)
    /\ UNCHANGED <<searchVars, scoreVars, suggestVars, translitVars, rankVars,
                   getSuggestionsVars, inventoryVars, initVars>>

\* Length of the longest string normalize is applied to.
MaxNormalizeLen == 3

\* a letter of each case, a digit, both kinds of whitespace, punctuation, a
\* Bangla letter, a Bangla vowel sign (a mark, not a letter) and two Hangul
\* conjoining jamo (letters)
NormalizeAlphabet == {"a", "B", "1", " ", "TAB", "!", "U09AC", "U09BE", "U1100", "U1161"}

NormalizeStrings ==
    {List(f) : f \in UNION {[1..n -> NormalizeAlphabet] : n \in 0..MaxNormalizeLen}}

sKitten == <<"k","i","t","t","e","n">>
sSitting == <<"s","i","t","t","i","n","g">>

DistancePairs ==
    (SimilarityStrings \X SimilarityStrings) \cup
    {<<sKitten, sSitting>>, <<sSitting, sKitten>>, <<sBook, sBoko>>}

Normalize(str) ==
    /\ fuzzyPc = "idle"
    /\ fuzzyPc' = "normalize"
    /\ fuzzyArgs' = <<str, <<>>>>
    /\ fuzzyResult' = normalize(str)
    /\ UNCHANGED <<searchVars, scoreVars, suggestVars, translitVars, rankVars,
                   getSuggestionsVars, inventoryVars, initVars>>

LevenshteinDistance(str1, str2) ==
    /\ fuzzyPc = "idle"
    /\ fuzzyPc' = "levenshteinDistance"
    /\ fuzzyArgs' = <<str1, str2>>
    /\ fuzzyResult' = levenshteinDistance(str1, str2)
    /\ UNCHANGED <<searchVars, scoreVars, suggestVars, translitVars, rankVars,
                   getSuggestionsVars, inventoryVars, initVars>>

NextFuzzy ==
    \/ \E str1 \in SimilarityStrings, str2 \in SimilarityStrings : Similarity(str1, str2)
    \/ \E q \in MatchQueries, text \in MatchTexts : GetMatchScore(q, text)
    \/ \E str \in NormalizeStrings : Normalize(str)
    \/ \E pair \in DistancePairs : LevenshteinDistance(pair[1], pair[2])

SpecFuzzy == InitFuzzy /\ [][NextFuzzy]_vars

\* ------------------------------------------------------------------------
\* Transliteration applied alone
\* ------------------------------------------------------------------------

DictionaryWords ==
    {banglaToEnglish[i][1] : i \in 1..Len(banglaToEnglish)} \cup
    {banglaToEnglish[i][2] : i \in 1..Len(banglaToEnglish)}

TranslitTexts ==
    DictionaryWords \cup {
        <<>>,
        <<"b","o","k">>,
        <<"B","o","k">>,
        <<"x","y","z">>,
        <<"T","o","m"," ","o","l","d">>,
        <<"b","o","i","l","e","r">>,
        <<"k","o","b","i","t","a","r">>,
        <<"B","O","I">>,
        <<"m","y"," ","b","o","i">>,
        <<"b","o","i"," ","b","a","n","g","l","a">>,
        \* 'boi mela' written as one Bangla word
        <<"U09AC","U0987","U09AE","U09C7","U09B2","U09BE">>,
        sBoi \o <<" ">> \o sBangla }

InitTranslit ==
    /\ books = <<>>
    /\ SearchIdle
    /\ ScoreIdle
    /\ SuggestIdle
    /\ CallsIdle

BanglaToEng(text) ==
    /\ translitPc = "idle"
    /\ translitPc' = "banglaToEng"
    /\ translitText' = text
    /\ translitResult' = banglaToEng(text)
    /\ UNCHANGED <<searchVars, scoreVars, suggestVars, fuzzyVars, rankVars,
                   getSuggestionsVars, inventoryVars, initVars>>

EngToBangla(text) ==
    /\ translitPc = "idle"
    /\ translitPc' = "engToBangla"
    /\ translitText' = text
    /\ translitResult' = engToBangla(text)
    /\ UNCHANGED <<searchVars, scoreVars, suggestVars, fuzzyVars, rankVars,
                   getSuggestionsVars, inventoryVars, initVars>>

GetAllVariations(q) ==
    /\ translitPc = "idle"
    /\ translitPc' = "getAllVariations"
    /\ translitText' = q
    /\ translitResult' = getAllVariations(q)
    /\ UNCHANGED <<searchVars, scoreVars, suggestVars, fuzzyVars, rankVars,
                   getSuggestionsVars, inventoryVars, initVars>>

NextTranslit ==
    \/ \E text \in TranslitTexts : BanglaToEng(text)
    \/ \E text \in TranslitTexts : EngToBangla(text)
    \/ \E q \in TranslitTexts : GetAllVariations(q)

SpecTranslit == InitTranslit /\ [][NextTranslit]_vars

\* ------------------------------------------------------------------------
\* SearchRanking.rankResults applied alone, once and then again with a
\* threshold at least as high
\* ------------------------------------------------------------------------

\* the records the item lists are cut from; 5 and 6 score like 1 and 2
RankPool ==
    CatalogSmall \o << Book(5, sBook, <<sTom>>, <<sGood>>, <<sOld>>, 1),
                       Book(6, sBoko, NULL, NULL, NULL, 2) >>

RankItemLists ==
    {<<>>} \cup {SubSeq(RankPool, a, b) : a \in {1, 2, 4}, b \in {2, 4, 6}}

RankQueries ==
    {<<>>, <<"o">>, <<"b","o","o","k">>, <<"B","o","k">>,
     <<"b","o","k"," ","t","o","m">>, <<"x","y","z">>, sBoi}

RankThresholds == {<<0, 1>>, <<3, 10>>, <<5, 1>>, <<8, 1>>, <<10, 1>>, <<11, 1>>}

InitRank ==
    /\ books = <<>>
    /\ SearchIdle
    /\ ScoreIdle
    /\ SuggestIdle
    /\ CallsIdle

RankResults(q, items, threshold) ==
    /\ rankPc = "idle"
    /\ rankPc' = "ranked"
    /\ rankQuery' = q
    /\ rankItems' = items
    /\ rankThreshold' = threshold
    /\ rankResult' = rankResults(q, items, threshold)
    /\ UNCHANGED <<rankAgainThreshold, rankAgainResult>>
    /\ UNCHANGED <<searchVars, scoreVars, suggestVars, fuzzyVars, translitVars,
                   getSuggestionsVars, inventoryVars, initVars>>

RankResultsAgain(threshold) ==
    /\ rankPc = "ranked"
    /\ RLeq(rankThreshold, threshold)
    /\ rankPc' = "rankedAgain"
    /\ rankAgainThreshold' = threshold
    /\ rankAgainResult' = rankResults(rankQuery, rankItems, threshold)
    /\ UNCHANGED <<rankQuery, rankItems, rankThreshold, rankResult>>
    /\ UNCHANGED <<searchVars, scoreVars, suggestVars, fuzzyVars, translitVars,
                   getSuggestionsVars, inventoryVars, initVars>>

NextRank ==
    \/ \E q \in RankQueries, items \in RankItemLists, threshold \in RankThresholds :
          RankResults(q, items, threshold)
    \/ \E threshold \in RankThresholds : RankResultsAgain(threshold)

SpecRank == InitRank /\ [][NextRank]_vars

\* ------------------------------------------------------------------------
\* SuggestionEngine.getSuggestions applied to a buffer that addQuery filled
\* ------------------------------------------------------------------------

\* the queries recorded into the buffer
SuggestionPool ==
    {sBook, <<"b","o","o","k","s">>, <<"O","l","d"," ","B","o","o","k","s","!">>,
     <<"b","o","k","o">>}

PartialQueries ==
    {<<>>, <<"!">>, <<"o">>, <<"b","o">>, <<"B","o","k">>, <<"b","o","o","k">>,
     <<"b","o","o","k","s">>, <<"x","y","z">>}

\* the limits asked for; 5 is the default
SuggestionLimits == {0, 1, 2, 5}

InitGetSuggestions ==
    /\ books = <<>>
    /\ SearchIdle
    /\ ScoreIdle
    /\ SuggestIdle
    /\ CallsIdle

\* addQuery of a query of the pool
AddPoolQuery ==
    /\ suggestPc = "idle"
    /\ \E q \in SuggestionPool : AddQuery(q)
    /\ UNCHANGED nFresh

GetSuggestions(partial, lim) ==
    /\ suggestPc = "idle"
    /\ suggestPc' = "done"
    /\ partialQuery' = partial
    /\ limit' = lim
    /\ matches' = getSuggestions(suggestions, partial, lim)
    /\ UNCHANGED <<searchVars, scoreVars, suggestVars, fuzzyVars, translitVars, rankVars,
                   inventoryVars, initVars>>

NextGetSuggestions ==
    \/ AddPoolQuery
    \/ \E partial \in PartialQueries, lim \in SuggestionLimits : GetSuggestions(partial, lim)

SpecGetSuggestions == InitGetSuggestions /\ [][NextGetSuggestions]_vars

\* ------------------------------------------------------------------------
\* InventoryScreen: the search effect and performSearch
\* ------------------------------------------------------------------------

InitInventory ==
    /\ books = CatalogSmall
    /\ SearchIdle
    /\ ScoreIdle
    /\ SuggestIdle
    /\ FunctionsIdle
    /\ InventoryMounted
    /\ DatabaseOpen

\* setSearchQuery(text) with a new text, and the effect that follows the
\* render: performSearch() up to its await, or the reset to the whole list
SetSearchQuery(text) ==
    /\ nTextChanges < MaxTextChanges
    /\ text # searchQuery
    /\ nTextChanges' = nTextChanges + 1
    /\ searchQuery' = text
    /\ IF trim(text) # <<>>
       THEN /\ isSearching' = TRUE
            /\ inFlight' = inFlight \cup {[n |-> nTextChanges + 1, text |-> trim(text)]}
            /\ UNCHANGED filteredBooks
       ELSE /\ filteredBooks' = books
            /\ isSearching' = FALSE
            /\ UNCHANGED inFlight
    /\ UNCHANGED <<books, suggestions, pc, query, ftsResults, allBooks, rankedResults,
                   fetchError, dbOutcome, dbResult, storeOutcome, storeResult, nIndexed,
                   nGetAll, nRank, nSearches, searchQueries, scoreVars, suggestVars,
                   fuzzyVars, translitVars, rankVars, getSuggestionsVars, initVars>>

\* the searchBooks call of one performSearch resolves (the query is recorded
\* when database.searchBooks returned); setFilteredBooks, setIsSearching(false)
SearchCompletes(search) ==
    /\ search \in inFlight
    /\ \E results \in {databaseSearchBooks(books, search.text)} :
           /\ suggestions' = IF results.ok THEN addQuery(suggestions, search.text)
                             ELSE suggestions
           /\ searchQueries' = IF results.ok
                               THEN Append(searchQueries, <<search.text, Len(results.v)>>)
                               ELSE searchQueries
           /\ filteredBooks' = IF results.ok THEN results.v ELSE <<>>
    /\ isSearching' = FALSE
    /\ inFlight' = inFlight \ {search}
    /\ UNCHANGED <<books, pc, query, ftsResults, allBooks, rankedResults, fetchError,
                   dbOutcome, dbResult, storeOutcome, storeResult, nIndexed, nGetAll,
                   nRank, nSearches, scoreVars, suggestVars, fuzzyVars, translitVars,
                   rankVars, getSuggestionsVars, searchQuery, nTextChanges, initVars>>

NextInventory ==
    \/ \E text \in InventoryTexts : SetSearchQuery(text)
    \/ \E n \in 1..MaxTextChanges : \E text \in InventoryTexts :
          SearchCompletes([n |-> n, text |-> trim(text)])

SpecInventory == InitInventory /\ [][NextInventory]_vars

\* ------------------------------------------------------------------------
\* DatabaseManager.init called by several callers
\* ------------------------------------------------------------------------

InitDatabase ==
    /\ books = <<>>
    /\ SearchIdle
    /\ ScoreIdle
    /\ SuggestIdle
    /\ CallsIdle

\* caller c calls init(): the handle if this.db is set, else
\* openDatabaseAsync is called and awaited
InitCalled(c) ==
    /\ initPc[c] = "idle"
    /\ IF db # NULL
       THEN /\ initPc' = [initPc EXCEPT ![c] = "returned"]
            /\ initResult' = [initResult EXCEPT ![c] = db]
            /\ UNCHANGED nOpens
       ELSE /\ initPc' = [initPc EXCEPT ![c] = "opening"]
            /\ nOpens' = nOpens + 1
            /\ UNCHANGED initResult
    /\ UNCHANGED <<db, tablesCreated>>
    /\ UNCHANGED <<searchVars, scoreVars, suggestVars, fuzzyVars, translitVars, rankVars,
                   getSuggestionsVars, inventoryVars>>

\* openDatabaseAsync resolves with the connection opened for c: this.db is
\* assigned, the PRAGMA batch is issued and awaited
OpenResolves(c) ==
    /\ initPc[c] = "opening"
    /\ db' = <<c>>
    /\ initPc' = [initPc EXCEPT ![c] = "pragma"]
    /\ UNCHANGED <<initResult, nOpens, tablesCreated>>
    /\ UNCHANGED <<searchVars, scoreVars, suggestVars, fuzzyVars, translitVars, rankVars,
                   getSuggestionsVars, inventoryVars>>

\* the PRAGMA batch resolves: createTables() finds this.db set, issues the
\* CREATE TABLE batch and awaits it
PragmaResolves(c) ==
    /\ initPc[c] = "pragma"
    /\ initPc' = [initPc EXCEPT ![c] = "createTables"]
    /\ UNCHANGED <<db, initResult, nOpens, tablesCreated>>
    /\ UNCHANGED <<searchVars, scoreVars, suggestVars, fuzzyVars, translitVars, rankVars,
                   getSuggestionsVars, inventoryVars>>

\* the CREATE TABLE batch resolves: init returns this.db
CreateTablesResolves(c) ==
    /\ initPc[c] = "createTables"
    /\ tablesCreated' = TRUE
    /\ initResult' = [initResult EXCEPT ![c] = db]
    /\ initPc' = [initPc EXCEPT ![c] = "returned"]
    /\ UNCHANGED <<db, nOpens>>
    /\ UNCHANGED <<searchVars, scoreVars, suggestVars, fuzzyVars, translitVars, rankVars,
                   getSuggestionsVars, inventoryVars>>

\* the awaited call of c rejects: init throws, this.db stays as it is
InitRejects(c) ==
    /\ initPc[c] \in {"opening", "pragma", "createTables"}
    /\ initPc' = [initPc EXCEPT ![c] = "threw"]
    /\ UNCHANGED <<db, initResult, nOpens, tablesCreated>>
    /\ UNCHANGED <<searchVars, scoreVars, suggestVars, fuzzyVars, translitVars, rankVars,
                   getSuggestionsVars, inventoryVars>>

NextDatabase ==
    \/ \E c \in Callers : InitCalled(c)
    \/ \E c \in Callers : OpenResolves(c)
    \/ \E c \in Callers : PragmaResolves(c)
    \/ \E c \in Callers : CreateTablesResolves(c)
    \/ \E c \in Callers : InitRejects(c)

SpecDatabase == InitDatabase /\ [][NextDatabase]_vars

\* ------------------------------------------------------------------------
\* Properties
\* ------------------------------------------------------------------------

Ids(list) == {list[i].id : i \in 1..Len(list)}

NoDuplicateIds(list) == Cardinality(Ids(list)) = Len(list)

NoDuplicates(list) == Cardinality({list[i] : i \in 1..Len(list)}) = Len(list)

\* the fuzzy-escalation path of database.searchBooks returned a list
FuzzyReturned == dbOutcome = "returned" /\ nGetAll = 1

\* the indexed tier of database.searchBooks returned a list
IndexedReturned == dbOutcome = "returned" /\ nGetAll = 0

\* C1: calculateScore returns a number for every query and record; it never
\* ends in an error (the recursion over the variations bottoms out).
C1_ScoreTerminates == scorePc = "done" => scoreResult.ok

\* C2: fewer than 3 indexed records: getAllBooks is called and, once it has
\* resolved, the catalog is ranked; 3 or more: exactly the indexed records
\* are returned, and neither getAllBooks nor rankResults is called.
C2_EscalationTrigger ==
    ftsResults # <<>> =>
        IF Len(ftsResults[1]) >= 3
        THEN /\ dbOutcome = "returned"
             /\ dbResult = ftsResults[1]
             /\ nGetAll = 0
             /\ nRank = 0
        ELSE /\ nGetAll = 1
             /\ allBooks # <<>> => nRank >= 1

\* exactly 2 indexed records, and the catalog was fetched and ranked
C2_Witness ==
    /\ ftsResults # <<>>
    /\ Len(ftsResults[1]) = 2
    /\ allBooks # <<>>
    /\ nRank >= 1
    /\ dbOutcome = "returned"

\* C3: the value calculateScore returns is in [0, 10].
C3_ScoreInRange ==
    (scorePc = "done" /\ scoreResult.ok) =>
        /\ RLeq(<<0, 1>>, scoreResult.v)
        /\ RLeq(scoreResult.v, <<10, 1>>)

\* the fields alone sum to more than 10 and the returned score is 10
C3_Witness ==
    /\ scorePc = "done"
    /\ scoreResult.ok
    /\ RLt(<<10, 1>>, DirectScore(scoreQuery, scoreBook))
    /\ scoreResult.v = <<10, 1>>

\* C4: a query whose normalized form is empty matches nothing: searchBooks
\* returns the empty list.
C4_EmptyQueryMatchesNothing ==
    (dbOutcome = "returned" /\ normalize(query) = <<>>) => dbResult = <<>>

\* C5: the list the fuzzy-escalation path returns holds no record id twice.
C5_DedupInvariant ==
    FuzzyReturned => NoDuplicateIds(rankedResults) /\ NoDuplicateIds(dbResult)

\* a variation pass ran and ranked records the first pass had ranked already
C5_Witness ==
    /\ FuzzyReturned
    /\ nRank = 2
    /\ Len(dbResult) >= 2
    /\ \E v \in {getAllVariations(query)[2]} :
           Ids(rankResults(v, allBooks[1], RANK_THRESHOLD).v) \cap Ids(dbResult) # {}

\* the merged list as the claim builds it: the ranked list for the query,
\* then per other variation the ranked records whose id is not yet present
RECURSIVE ClaimedMerge(_, _, _, _, _)
ClaimedMerge(variations, k, q, catalog, merged) ==
    IF k > Len(variations) THEN merged
    ELSE IF variations[k] = q THEN ClaimedMerge(variations, k + 1, q, catalog, merged)
    ELSE LET ranked == rankResults(variations[k], catalog, RANK_THRESHOLD).v
             fresh == SelectSeq(ranked, LAMBDA r : r.id \notin Ids(merged))
         IN  ClaimedMerge(variations, k + 1, q, catalog, merged \o fresh)

\* C6: the fuzzy-escalation result is the first 50 records of the merged
\* list (first occurrence wins), so it has at most 50 records.
C6_CappedMerge ==
    FuzzyReturned =>
        LET merged == ClaimedMerge(getAllVariations(query), 1, query, allBooks[1],
                                   rankResults(query, allBooks[1], RANK_THRESHOLD).v)
        IN  /\ dbResult = SubSeq(merged, 1, IF Len(merged) < 50 THEN Len(merged) ELSE 50)
            /\ Len(dbResult) <= 50

\* the merged list had more than 50 records and 50 were returned
C6_Witness ==
    /\ FuzzyReturned
    /\ Len(rankedResults) > 50
    /\ Len(dbResult) = 50

\* C7: when database.searchBooks has returned a list, by either tier, the
\* normalized query is in the suggestion buffer unless it is empty.
C7_QueryRecorded ==
    dbOutcome = "returned" =>
        normalize(query) = <<>> \/ InBuffer(suggestions, normalize(query))

\* the fuzzy tier served a query that is not in normal form, and its normal
\* form is in the buffer
C7_Witness ==
    /\ FuzzyReturned
    /\ normalize(query) # query
    /\ InBuffer(suggestions, normalize(query))

\* C8: the buffer never holds more than 1000 entries; after 1001 distinct
\* queries it holds exactly 1000, the first recorded is gone and the other
\* 1000 are there in recording order.
C8_SuggestionBound ==
    /\ Len(suggestions) <= 1000
    /\ nFresh = 1001 =>
          /\ Len(suggestions) = 1000
          /\ ~InBuffer(suggestions, normalize(FreshQuery(1)))
          /\ \A i \in 1..1000 : suggestions[i] = normalize(FreshQuery(i + 1))

\* 1001 distinct queries were recorded
C8_Witness == nFresh = 1001 /\ Len(suggestions) = 1000

\* C9: addQuery leaves the buffer as it is when the query normalizes to the
\* empty string or its normalized form is in the buffer; the buffer holds no
\* empty string and no entry twice.
C9_AddQueryFrame ==
    [][\E normalized \in {normalize(suggestQuery')} :
          /\ (normalized = <<>> \/ InBuffer(suggestions, normalized))
                => suggestions' = suggestions
          /\ ~InBuffer(suggestions', <<>>)
          /\ NoDuplicates(suggestions')]_vars

\* a query whose normalized form was in the buffer has just been added again
C9_Witness ==
    /\ Len(suggestions) >= 2
    /\ normalize(suggestQuery) = suggestions[1]
    /\ suggestQuery # suggestions[1]

\* C10: a rejected fetch is not retried, makes database.searchBooks throw,
\* and the store-level searchBooks returns the empty list.
C10_FetchFailureDegrades ==
    fetchError # "none" =>
        /\ dbOutcome = "threw"
        /\ nIndexed = 1
        /\ nGetAll = (IF fetchError = "getAllBooks" THEN 1 ELSE 0)
        /\ nRank = 0
        /\ pc = "done"
        /\ storeOutcome = "returned"
        /\ storeResult = <<>>

\* getAllBooks rejected after the indexed query had resolved
C10_Witness ==
    /\ fetchError = "getAllBooks"
    /\ ftsResults # <<>>
    /\ storeOutcome = "returned"

\* the best similarity of a query word against the words of a field
BestSimilarity(word, textWords) ==
    CHOOSE r \in {similarity(word, textWords[k]) : k \in 1..Len(textWords)} :
        \A k \in 1..Len(textWords) : RLeq(similarity(word, textWords[k]), r)

RECURSIVE SumOver(_, _)
SumOver(f, indices) ==
    IF indices = {} THEN <<0, 1>>
    ELSE LET i == CHOOSE j \in indices : TRUE
         IN  RAdd(f[i], SumOver(f, indices \ {i}))

\* the field score as the claim computes it: the words that do not clear the
\* 0.6 bar are left out of the sum and of the denominator
ClaimedMatchScore(q, text) ==
    LET normalizedQuery == normalize(q)
        normalizedText == normalize(text)
        queryWords == split(normalizedQuery)
        textWords == split(normalizedText)
        best == [i \in 1..Len(queryWords) |-> BestSimilarity(queryWords[i], textWords)]
        cleared == {i \in 1..Len(queryWords) : ~RLt(best[i], <<3, 5>>)}
    IN  IF includes(normalizedText, normalizedQuery) THEN <<1, 1>>
        ELSE IF cleared = {} THEN <<0, 1>>
        ELSE RMul(SumOver(best, cleared), <<1, Cardinality(cleared)>>)

\* C13: getMatchScore is 1.0 when the normalized field contains the
\* normalized query; otherwise it is the average of the best similarities of
\* the query words that clear the 0.6 bar (the others are excluded from the
\* denominator), and 0 when none clears it.
C13_MatchScoreAveragesClearedWords ==
    fuzzyPc = "getMatchScore" =>
        fuzzyResult = ClaimedMatchScore(fuzzyArgs[1], fuzzyArgs[2])

\* C19: similarity(a, b) = similarity(b, a) for all strings a and b.
C19_SimilaritySymmetric ==
    fuzzyPc = "similarity" => fuzzyResult = similarity(fuzzyArgs[2], fuzzyArgs[1])

\* two different strings of different lengths that are partly alike
C19_Witness ==
    /\ fuzzyPc = "similarity"
    /\ Len(fuzzyArgs[1]) < Len(fuzzyArgs[2])
    /\ RLt(<<0, 1>>, fuzzyResult)
    /\ RLt(fuzzyResult, <<1, 1>>)

\* C20: similarity(s, s) = 1.0 for every string s, the empty string
\* included, and similarity(a, b) lies in [0, 1] for all a and b.
C20_SimilarityReflexive ==
    fuzzyPc = "similarity" =>
        /\ RLeq(<<0, 1>>, fuzzyResult)
        /\ RLeq(fuzzyResult, <<1, 1>>)
        /\ fuzzyArgs[1] = fuzzyArgs[2] => fuzzyResult = <<1, 1>>

\* similarity was applied to two empty strings
C20_Witness ==
    /\ fuzzyPc = "similarity"
    /\ fuzzyArgs = <<<<>>, <<>>>>
    /\ fuzzyResult = <<1, 1>>

\* some dictionary word, of either script, occurs in the lower-cased text
ContainsDictionaryWord(text) ==
    \E w \in DictionaryWords : includes(toLowerCase(text), w)

\* C15: for a query that contains no word of the dictionary, in either
\* script, getAllVariations returns the one-element list of the query itself.
C15_NoMatchSingleVariation ==
    (translitPc = "getAllVariations" /\ ~ContainsDictionaryWord(translitText)) =>
        translitResult = <<translitText>>

\* whole-word, simultaneous substitution: each word of the text that is a
\* key of the dictionary is replaced by its value, every other word is kept
WholeWordSubstitution(text, entries) ==
    LET words == split(text)
        Replaced(w) ==
            IF \E i \in 1..Len(entries) : entries[i][1] = w
            THEN entries[CHOOSE i \in 1..Len(entries) : entries[i][1] = w][2]
            ELSE w
    IN  JoinWords([k \in 1..Len(words) |-> Replaced(words[k])])

\* C16: banglaToEng and engToBangla replace a dictionary key only where it is
\* a complete word, and all keys are replaced at once (no output of one
\* replacement is replaced again).
C16_WholeWordSubstitution ==
    /\ translitPc = "banglaToEng" =>
          translitResult = WholeWordSubstitution(toLowerCase(translitText), banglaToEnglish)
    /\ translitPc = "engToBangla" =>
          translitResult = WholeWordSubstitution(toLowerCase(translitText), englishToBangla)

\* C17: getAllVariations(query) contains the query and no string twice; the
\* variations of a Bangla dictionary word contain its Latin form and the
\* variations of a Latin dictionary word contain its Bangla form.
C17_VariationsContainBothScripts ==
    translitPc = "getAllVariations" =>
        /\ InBuffer(translitResult, translitText)
        /\ NoDuplicates(translitResult)
        /\ \A i \in 1..Len(banglaToEnglish) :
              /\ translitText = banglaToEnglish[i][1] =>
                    InBuffer(translitResult, banglaToEnglish[i][2])
              /\ translitText = banglaToEnglish[i][2] =>
                    InBuffer(translitResult, banglaToEnglish[i][1])

\* the variations of the Bangla word for 'boi' were computed and hold 'boi'
C17_Witness ==
    /\ translitPc = "getAllVariations"
    /\ translitText = sBangla
    /\ translitResult = <<sBangla, sBoi>>

Elements(list) == {list[i] : i \in 1..Len(list)}

IndexIn(list, x) == CHOOSE i \in 1..Len(list) : list[i] = x

\* the score of an item of the ranked list
ScoreOf(item) == calculateScore(rankQuery, item).v

\* C11: rankResults returns exactly the items whose score is >= threshold,
\* each once, by score descending, items of equal score in input order; an
\* empty items list gives an empty list.
C11_RankResultsFilterSort ==
    (rankPc # "idle" /\ rankResult.ok) =>
        LET result == rankResult.v
        IN  /\ Elements(result) =
                  {item \in Elements(rankItems) : RLeq(rankThreshold, ScoreOf(item))}
            /\ NoDuplicates(result)
            /\ \A j \in 1..Len(result) : \A k \in (j + 1)..Len(result) :
                  /\ RLeq(ScoreOf(result[k]), ScoreOf(result[j]))
                  /\ ScoreOf(result[k]) = ScoreOf(result[j]) =>
                        IndexIn(rankItems, result[j]) < IndexIn(rankItems, result[k])
            /\ rankItems = <<>> => result = <<>>

\* items of equal score were ranked, one item fell below the threshold, and
\* the order of the result is not the input order
C11_Witness ==
    /\ rankPc = "ranked"
    /\ rankResult.ok
    /\ Len(rankResult.v) >= 3
    /\ Len(rankResult.v) < Len(rankItems)
    /\ \E j \in 1..Len(rankResult.v) : \E k \in (j + 1)..Len(rankResult.v) :
          ScoreOf(rankResult.v[j]) = ScoreOf(rankResult.v[k])
    /\ \E j \in 1..Len(rankResult.v) : \E k \in (j + 1)..Len(rankResult.v) :
          IndexIn(rankItems, rankResult.v[j]) > IndexIn(rankItems, rankResult.v[k])

\* C12: for thresholds t1 <= t2, rankResults(query, items, t2) has no more
\* elements than rankResults(query, items, t1) and is a subsequence of it.
C12_ThresholdMonotonic ==
    (rankPc = "rankedAgain" /\ rankResult.ok /\ rankAgainResult.ok) =>
        /\ Len(rankAgainResult.v) <= Len(rankResult.v)
        /\ rankAgainResult.v =
              SelectSeq(rankResult.v, LAMBDA item : item \in Elements(rankAgainResult.v))

\* the higher threshold removed some items and kept others
C12_Witness ==
    /\ rankPc = "rankedAgain"
    /\ rankResult.ok
    /\ rankAgainResult.ok
    /\ RLt(rankThreshold, rankAgainThreshold)
    /\ Len(rankAgainResult.v) >= 2
    /\ Len(rankAgainResult.v) < Len(rankResult.v)

\* the contribution of an optional field as the claim states it
ClaimedFieldScore(normalizedQuery, field, weight) ==
    IF field = NULL \/ field = <<<<>>>> THEN <<0, 1>>
    ELSE RMul(<<weight, 1>>, getMatchScore(normalizedQuery, field[1]))

RECURSIVE SumOfScores(_, _, _, _)
\* the sum of calculateScore(v, book) over the variations v[k..] other than q
SumOfScores(variations, k, q, book) ==
    IF k > Len(variations) THEN <<0, 1>>
    ELSE IF variations[k] = q THEN SumOfScores(variations, k + 1, q, book)
    ELSE RAdd(calculateScore(variations[k], book).v,
              SumOfScores(variations, k + 1, q, book))

\* C14: calculateScore(query, record) = min(10, 5 f(name) + 3 f(author) +
\* 2 f(publisher) + f(notes) + 0.8 * the sum of calculateScore(v, record) over
\* the variations v other than the query), f being getMatchScore against the
\* normalized query; an absent author, publisher or notes contributes 0.
C14_WeightedScoreFormula ==
    (scorePc = "done" /\ scoreResult.ok) =>
        LET normalizedQuery == normalize(scoreQuery)
            total ==
                RAdd(RAdd(RAdd(RMul(<<5, 1>>, getMatchScore(normalizedQuery, scoreBook.name)),
                               ClaimedFieldScore(normalizedQuery, scoreBook.author, 3)),
                          RAdd(ClaimedFieldScore(normalizedQuery, scoreBook.publisher, 2),
                               ClaimedFieldScore(normalizedQuery, scoreBook.notes, 1))),
                     RMul(<<4, 5>>, SumOfScores(getAllVariations(scoreQuery), 1,
                                                scoreQuery, scoreBook)))
        IN  scoreResult.v = (IF RLt(<<10, 1>>, total) THEN <<10, 1>> ELSE total)

\* a record without author, with empty notes, scored for a query that has a
\* variation other than itself; the sum stays under the cap
C14_Witness ==
    /\ scorePc = "done"
    /\ scoreResult.ok
    /\ scoreBook.author = NULL
    /\ scoreBook.notes = <<<<>>>>
    /\ Len(getAllVariations(scoreQuery)) = 2
    /\ RLt(DirectScore(scoreQuery, scoreBook), scoreResult.v)
    /\ RLt(scoreResult.v, <<10, 1>>)

\* the entry starts with the normalized partial query
StartsWithPartial(entry) == startsWith(entry, normalize(partialQuery))

\* C18: getSuggestions returns at most limit strings, each a buffer entry
\* that contains the normalized partial query or has similarity > 0.7 to it;
\* the entries that start with the normalized partial query come before all
\* others, and each of the two groups is in descending getMatchScore order.
C18_SuggestionsFilterOrder ==
    suggestPc = "done" =>
        LET normalized == normalize(partialQuery)
        IN  /\ Len(matches) <= limit
            /\ \A j \in 1..Len(matches) :
                  /\ InBuffer(suggestions, matches[j])
                  /\ \/ includes(matches[j], normalized)
                     \/ RLt(<<7, 10>>, similarity(normalized, matches[j]))
            /\ \A j \in 1..Len(matches) : \A k \in (j + 1)..Len(matches) :
                  /\ StartsWithPartial(matches[k]) => StartsWithPartial(matches[j])
                  /\ StartsWithPartial(matches[j]) = StartsWithPartial(matches[k]) =>
                        RLeq(getMatchScore(normalized, matches[k]),
                             getMatchScore(normalized, matches[j]))

\* an entry that starts with the partial query was recorded after, and is
\* returned before, two entries that do not; the later of those two has the
\* higher match score and comes first
C18_Witness ==
    /\ suggestPc = "done"
    /\ Len(matches) = 3
    /\ StartsWithPartial(matches[1])
    /\ ~StartsWithPartial(matches[2])
    /\ RLt(getMatchScore(normalize(partialQuery), matches[3]),
           getMatchScore(normalize(partialQuery), matches[2]))
    /\ suggestions[1] = matches[3]
    /\ suggestions[2] = matches[2]

\* C21: normalize(normalize(s)) = normalize(s); the normalized string is
\* lower-case, holds only letters, digits and single spaces, and neither
\* starts nor ends with a space.
C21_NormalizeIdempotent ==
    fuzzyPc = "normalize" =>
        /\ normalize(fuzzyResult) = fuzzyResult
        /\ \A i \in 1..Len(fuzzyResult) :
              \/ IsLetterOrNumber(fuzzyResult[i]) /\ toLowerCase1(fuzzyResult[i]) = fuzzyResult[i]
              \/ fuzzyResult[i] = " "
        /\ \A i \in 1..(Len(fuzzyResult) - 1) :
              ~(fuzzyResult[i] = " " /\ fuzzyResult[i + 1] = " ")
        /\ fuzzyResult # <<>> => fuzzyResult[1] # " " /\ fuzzyResult[Len(fuzzyResult)] # " "

RECURSIVE EditDistance(_, _)
\* the minimum number of insertions, deletions and substitutions turning a
\* into b, by cases on the first characters
EditDistance(a, b) ==
    IF a = <<>> THEN Len(b)
    ELSE IF b = <<>> THEN Len(a)
    ELSE Min2(Min2(EditDistance(Tail(a), b) + 1, EditDistance(a, Tail(b)) + 1),
              EditDistance(Tail(a), Tail(b)) + (IF Head(a) = Head(b) THEN 0 ELSE 1))

\* C22: levenshteinDistance(a, b) is the unit-cost edit distance of a and b,
\* for empty strings too; the distance of 'kitten' and 'sitting' is 3.
C22_LevenshteinIsEditDistance ==
    fuzzyPc = "levenshteinDistance" =>
        /\ fuzzyResult = EditDistance(fuzzyArgs[1], fuzzyArgs[2])
        /\ fuzzyArgs = <<sKitten, sSitting>> => fuzzyResult = 3

\* levenshteinDistance was applied to 'kitten' and 'sitting'
C22_Witness ==
    /\ fuzzyPc = "levenshteinDistance"
    /\ fuzzyArgs = <<sKitten, sSitting>>
    /\ fuzzyResult = 3

ColumnContains(field, lowered) ==
    field # NULL /\ includes(toLowerCase(field[1]), lowered)

\* the record matches the query as the claim states it
ClaimedIndexedMatch(row, lowered) ==
    \/ includes(toLowerCase(row.name), lowered)
    \/ ColumnContains(row.author, lowered)
    \/ ColumnContains(row.publisher, lowered)

\* the tier of a record as the claim states it
ClaimedTier(row, lowered) ==
    IF toLowerCase(row.name) = lowered THEN 1
    ELSE IF startsWith(toLowerCase(row.name), lowered) THEN 2
    ELSE IF ColumnContains(row.author, lowered) THEN 3
    ELSE 4

\* C24: the indexed pass returns the records whose lower-cased name, author
\* or publisher contains the lower-cased query, in four tiers (name equal to
\* the query, name starting with it, author containing it, the others) and by
\* updatedAt descending within a tier.
C24_IndexedPassTiers ==
    ftsResults # <<>> =>
        LET result == ftsResults[1]
            lowered == toLowerCase(query)
        IN  /\ Elements(result) =
                  {row \in Elements(books) : ClaimedIndexedMatch(row, lowered)}
            /\ NoDuplicates(result)
            /\ \A j \in 1..Len(result) : \A k \in (j + 1)..Len(result) :
                  \/ ClaimedTier(result[j], lowered) < ClaimedTier(result[k], lowered)
                  \/ /\ ClaimedTier(result[j], lowered) = ClaimedTier(result[k], lowered)
                     /\ result[j].updatedAt >= result[k].updatedAt

\* C25: the score depends only on the normalized query: two queries with the
\* same normalize() value (differing in letter case, say) give every record
\* the same score.
C25_ScoreDependsOnNormalizedQuery ==
    (scorePc = "done" /\ scoreResult.ok) =>
        \A other \in ScoreQueries :
            normalize(other) = normalize(scoreQuery) =>
                \E otherResult \in {calculateScore(other, scoreBook)} :
                    otherResult.ok => otherResult = scoreResult

\* C27: when database.searchBooks has returned, the store-level searchBooks
\* returns exactly its results, also when recordSearch fails afterwards.
C27_AnalyticsFailureKeepsResults ==
    (dbOutcome = "returned" /\ storeOutcome = "returned") => storeResult = dbResult

\* C28: when the indexed pass finds 1 or 2 records and searchBooks escalates,
\* every record the indexed pass found is in the list finally returned.
C28_EscalationKeepsIndexedHits ==
    (FuzzyReturned /\ ftsResults # <<>>) => Ids(ftsResults[1]) \subseteq Ids(dbResult)

\* the entry the k-th distinct query is recorded as
FirstInsertion(k) == <<"q">> \o Decimal(k)

\* C29: recording a query again does not move its entry: the buffer is in
\* order of first insertion, and an entry is evicted exactly when 1000
\* distinct entries have been appended after it, however often it was
\* recorded again in between.
C29_EvictionByFirstInsertion ==
    \E n \in {Len(suggestions)} :
        /\ n = Min2(nFresh, 1000)
        /\ \A i \in 1..n : suggestions[i] = FirstInsertion(nFresh - n + i)

\* the oldest entry of the full buffer has just been recorded again
C29_Witness ==
    /\ Len(suggestions) = 1000
    /\ normalize(suggestQuery) = suggestions[1]
    /\ suggestQuery # suggestions[1]

\* C26: once every search in flight has completed, the list displayed is the
\* result of the search for the latest search text, whatever the order in
\* which the searches completed.
C26_LatestSearchDisplayed ==
    (inFlight = {} /\ trim(searchQuery) # <<>>) =>
        filteredBooks = storeSearchBooks(books, trim(searchQuery))

\* C30: the database is opened at most once, and no caller of init() has the
\* handle before createTables has completed.
C30_SingleInitialization ==
    /\ nOpens <= 1
    /\ \A c \in Callers : initPc[c] = "returned" => tablesCreated

====
